---- MODULE Spec2Model ----
(***************************************************************************)
(* State-machine model of the WAV streaming adapters of pipelined/wav.      *)
(*                                                                         *)
(* The repository holds several generations of the same two adapters:      *)
(*   PumpFixed    Pump.Pump(sourceID, bufferSize)   src/unnamed/part_003   *)
(*   PumpSized    Pump.Pump(sourceID), pull(bufferSize)   src/wav.go:41    *)
(*   PumpInto     Pump.Pump(sourceID), pull(b)      src/unnamed/part_004   *)
(*   SourceMethod Source.Source(), a method         src/unnamed/part_005   *)
(*   Source       Source(rs)                        src/wav.go:140         *)
(* and the matching sinks.  SpecSource drives the decoding adapters over a  *)
(* WAV stream, SpecSink drives the encoding adapters, SpecConvert takes    *)
(* samples through the conversion, SpecPipe runs a source into a sink,     *)
(* SpecTruncated reads a data chunk cut inside a frame, and SpecReopen     *)
(* calls open more than once on one adapter value.                         *)
(*                                                                         *)
(* The container codec (go-audio/wav) is the environment: PCMBuffer fills   *)
(* the buffer it is given with as many samples as the data chunk still     *)
(* holds, or reports a read failure; Write receives the PCM buffer.        *)
(***************************************************************************)
EXTENDS Integers, Sequences, FiniteSets, TLC

\* ------------------------------------------------------------------ bounds

MaxFrames == 4

MaxBufferSize == 2

MaxChannels == 2

MaxCalls == 6

MaxPushes == 3

\* ------------------------------------------------------------- arithmetic

Min(a, b) == IF a < b THEN a ELSE b

RECURSIVE Pow2(_)
Pow2(n) == IF n = 0 THEN 1 ELSE 2 * Pow2(n - 1)

\* signal.ChannelLength / InterInt.Size: ceil(sliceLen / channels)
ChannelLength(sliceLen, ch) == (sliceLen + ch - 1) \div ch

Zeros(n) == [i \in 1..n |-> 0]

\* ----------------------------------------------------------------- errors
\* An error value is the chain of its messages, outermost first; the empty
\* chain is nil.  fmt.Errorf("...: %w", err) puts a message in front.

Nil == <<>>

EOF == <<"EOF">>

ErrUnexpectedEOF == <<"unexpected EOF">>

ErrInvalidWav == <<"invalid WAV">>

ErrRead == <<"read failure">>

ErrWrite == <<"write failure">>

Wrap(msg, err) == <<msg>> \o err

\* errors.Is / errors.Unwrap chain: err is target or wraps it
Carries(err, target) ==
    \E i \in 1..Len(err) : SubSeq(err, i, Len(err)) = target

\* ------------------------------------------------------------------ state

VARIABLES
    wavFile,   \* the byte stream: [valid, channels, bitDepth, sampleRate, frames,
               \* tail]
    pos,       \* samples of the data chunk the decoder has consumed
    reads,     \* PCMBuffer calls made so far
    d,         \* the adapter's decoder field (p.d / p.decoder): "nil" or "decoder"
    fn,        \* the pull closure: [impl, bufferSize, pcm, scratch, size,
               \* intsLen, bitDepth, unsigned]
    openRet,   \* what the open call returned, [called |-> FALSE] before it
    ret,       \* what the most recent pull returned
    hist,      \* observations over the pulls made so far
    sink,      \* the Sink value: [bitDepth, e]
    enc,       \* the container encoder the sink created
    sfn,       \* the push closure
    sret,      \* what the most recent sink call returned
    shist,     \* observations over the pushes made so far
    conv,      \* one sample on its way through the sample converter
    own        \* the decoders or encoders made on one adapter value by
               \* repeated open calls, and the calls made on each of them

vars == <<wavFile, pos, reads, d, fn, openRet, ret, hist, sink, enc, sfn, sret,
          shist, conv, own>>

sourceVars == <<wavFile, pos, reads, d, fn, openRet, ret, hist>>

sinkVars == <<sink, enc, sfn, sret, shist>>

\* ------------------------------------------------------- sample conversion
\* A float sample is the exact dyadic fraction <<n, k>>, standing for n / 2^k.

BitDepth8 == 8

\* every bit depth taken for signed
IsUnsignedNever(bitDepth) == FALSE

\* 16-bit audio taken for unsigned as well
IsUnsignedUpTo16(bitDepth) == bitDepth <= 16

\* the unsigned flag: 8-bit wav audio is unsigned (wav.go:52-55, 163, 251)
IsUnsigned(bitDepth) == bitDepth = BitDepth8

\* InterInt.AsFloat64 / SignedAsFloating / UnsignedAsFloating on one sample:
\* sample / 2^(depth-1), the unsigned sample first moved down by 2^(depth-1)
IntToFloat(s, bitDepth, unsigned) ==
    IF unsigned
    THEN <<s - Pow2(bitDepth - 1), bitDepth - 1>>
    ELSE <<s, bitDepth - 1>>

\* n / den rounded to the nearest integer, halves away from zero, den > 0
RoundDiv(n, den) ==
    IF n >= 0 THEN (2 * n + den) \div (2 * den)
    ELSE -((2 * (-n) + den) \div (2 * den))

\* f * 2^m rounded to the nearest integer
Scale(f, m) ==
    IF m >= f[2] THEN f[1] * Pow2(m - f[2])
    ELSE RoundDiv(f[1], Pow2(f[2] - m))

\* Float64.AsInterInt / FloatingAsSigned / FloatingAsUnsigned on one sample:
\* sample * 2^(depth-1) rounded, the unsigned sample then moved up again
FloatToInt(f, bitDepth, unsigned) ==
    IF unsigned
    THEN Scale(f, bitDepth - 1) + Pow2(bitDepth - 1)
    ELSE Scale(f, bitDepth - 1)

\* InterInt{Data, NumChannels}.AsFloat64(): channel c, position i takes the
\* sample at interleaved index i*channels + c; a trailing partial frame is
\* padded with zero.
AsFloat64(data, ch, bitDepth, unsigned) ==
    [c \in 1..ch |->
        [i \in 1..ChannelLength(Len(data), ch) |->
            IF (i - 1) * ch + c <= Len(data)
            THEN IntToFloat(data[(i - 1) * ch + c], bitDepth, unsigned)
            ELSE <<0, 0>>]]

\* Float64.Size(): samples per channel, 0 for the nil buffer
Size(b) == IF Len(b) = 0 THEN 0 ELSE Len(b[1])

\* --------------------------------------------------- the container decoder

FailModes == {"ok", "failEmpty", "failPartial"}

\* the samples of the data chunk: its whole frames and, when the chunk ends
\* inside a frame, the samples of the frame that was begun
TotalSamples == wavFile.frames * wavFile.channels + wavFile.tail

\* the PCM sample at position i (1-based) of the data chunk
SrcSample(i) ==
    IF wavFile.bitDepth = 8 THEN Pow2(wavFile.bitDepth - 1) + i
    ELSE IF i % 2 = 1 THEN i ELSE -i

\* decoder.PCMBuffer(buf): fills buf.Data from the data chunk and returns the
\* number of samples read; at the end of the chunk it returns 0 and no error.
\* A failing read returns the failure and may have consumed samples.
PCMBuffer(data, mode) ==
    LET avail == Min(Len(data), TotalSamples - pos)
        n == IF mode = "failEmpty" THEN 0 ELSE avail
    IN [n    |-> n,
        err  |-> IF mode = "ok" THEN Nil ELSE ErrRead,
        data |-> [i \in 1..Len(data) |->
                     IF i <= n THEN SrcSample(pos + i) ELSE data[i]],
        pos  |-> pos + n]

\* ------------------------------------------------- decoding adapters: pull

\* wav.go:66-69 (part_003:65-68): the decoder's error is returned as it is
PumpReadErr(err) == err

\* the read error formatted with %v: its text is kept, the error itself is lost
SourceReadErrFlattened(err) == <<"error reading PCM buffer: read failure">>

\* wav.go:181-184, 205-208 (part_004:78-81, part_005:86-89): ... wrapped with %w
SourceReadErr(err) == Wrap("error reading PCM buffer", err)

\* the end of the stream wrapped like a failure
EndErrWrapped(read) ==
    IF read = 0 THEN Wrap("error reading PCM buffer", EOF) ELSE Nil

\* wav.go:71-73, 185-187: zero samples read is the end of the stream
EndErr(read) == IF read = 0 THEN EOF ELSE Nil

\* the scratch buffer handed on whole, not pruned to the samples read
PruneNothing(data, read) == data

\* wav.go:77 (part_003:76), wav.go:190: ib.Data[:read]
Prune(data, read) == SubSeq(data, 1, read)

\* the short buffer returned like a full one
ShortSignalNever(size, bufferSize) == Nil

\* wav.go:83-86 (part_003:82-85): a buffer shorter than asked is flagged
ShortSignal(size, bufferSize) ==
    IF size # bufferSize THEN ErrUnexpectedEOF ELSE Nil

\* wav.go:62: the test that decides whether the scratch PCM buffer is made
\* anew, len(ib.Data) != bufferSize
PumpReallocs(data, bufferSize) == Len(data) # bufferSize

\* wav.go:62-64: the scratch PCM buffer of the pull with a per-call size
PumpRealloc(data, bufferSize, ch) ==
    IF PumpReallocs(data, bufferSize) THEN Zeros(bufferSize * ch) ELSE data

\* the result of a pull that delivers nothing
NoData(f, r, err) ==
    [fn |-> f, pos |-> r.pos, read |-> r.n, readErr |-> r.err, attempts |-> 1,
     out |-> <<>>, frames |-> 0, err |-> err, realloc |-> FALSE,
     handed |-> 0]

\* part_003:64-86 and wav.go:66-86: the pull of Pump.Pump once the scratch
\* buffer f.pcm is in place
PumpPull(f, bufferSize, mode) ==
    LET r == PCMBuffer(f.pcm, mode)
        g == [f EXCEPT !.pcm = r.data]
        b == AsFloat64(Prune(r.data, r.n), wavFile.channels, f.bitDepth,
                       f.unsigned)
    IN IF r.err # Nil THEN NoData(g, r, PumpReadErr(r.err))
       ELSE IF EndErr(r.n) # Nil THEN NoData(g, r, EndErr(r.n))
       ELSE [fn |-> g, pos |-> r.pos, read |-> r.n, readErr |-> r.err,
             attempts |-> 1, out |-> b, frames |-> Size(b),
             err |-> ShortSignal(Size(b), bufferSize), realloc |-> FALSE,
             handed |-> Len(Prune(r.data, r.n))]

\* signal.WriteInt(src, dst): copies min(len) samples into the signed buffer
WriteInt(src, dst) ==
    [i \in 1..Len(dst) |-> IF i <= Len(src) THEN src[i] ELSE dst[i]]

\* Signed.Slice(0, end) / Unsigned.Slice(0, end): the first end frames
Slice(buf, end, ch) == SubSeq(buf, 1, Min(Len(buf), end * ch))

\* signal.SignedAsFloating / UnsignedAsFloating(src, floating): converts
\* min(src.Len(), floating.Len()) samples, returns the frames converted
AsFloating(src, floatLen, ch, bitDepth, unsigned) ==
    AsFloat64(SubSeq(src, 1, Min(Len(src), floatLen * ch)), ch, bitDepth,
              unsigned)

\* sourceSigned converting the whole scratch buffer whatever was read
SignedFramesWhole(f, r, floatLen, ch) ==
    [scratch |-> WriteInt(r.data, f.scratch),
     src |-> WriteInt(r.data, f.scratch), handed |-> Len(r.data)]

\* wav.go:189-198 (part_005:94-103): sourceSigned after a successful read;
\* pcm.Data[:read] or pcm.Data is what signal.WriteInt is handed
SignedFrames(f, r, floatLen, ch) ==
    LET src == IF r.n # Len(r.data) THEN Prune(r.data, r.n) ELSE r.data
        signed == WriteInt(src, f.scratch)
        read == ChannelLength(Min(Len(f.scratch), Len(src)), ch)
    IN [scratch |-> signed,
        src |-> IF read # floatLen THEN Slice(signed, read, ch) ELSE signed,
        handed |-> Len(src)]

\* wav.go:213-219 (part_005:118-124): sourceUnsigned after a successful read;
\* the frames of the slice are what signal.UnsignedAsFloating is handed
UnsignedFrames(f, r, floatLen, ch) ==
    LET unsigned == [i \in 1..Len(f.scratch) |->
                        IF i <= r.n THEN r.data[i] ELSE f.scratch[i]]
        src == IF r.n # Len(r.data)
               THEN Slice(unsigned, ChannelLength(r.n, ch), ch)
               ELSE unsigned
    IN [scratch |-> unsigned, src |-> src, handed |-> Len(src)]

\* wav.go:178-221 (part_005:83-126): the SourceFunc; floatLen is the length
\* of the floating buffer the pipe hands in
SourcePull(f, floatLen, mode) ==
    LET ch == wavFile.channels
        r == PCMBuffer(f.pcm, mode)
        g == [f EXCEPT !.pcm = r.data]
        w == IF f.unsigned
             THEN UnsignedFrames(f, r, floatLen, ch)
             ELSE SignedFrames(f, r, floatLen, ch)
        b == AsFloating(w.src, floatLen, ch, f.bitDepth, f.unsigned)
    IN IF r.err # Nil THEN NoData(g, r, SourceReadErr(r.err))
       ELSE IF EndErr(r.n) # Nil THEN NoData(g, r, EndErr(r.n))
       ELSE [fn |-> [g EXCEPT !.scratch = w.scratch], pos |-> r.pos,
             read |-> r.n, readErr |-> r.err, attempts |-> 1,
             out |-> b, frames |-> Size(b), err |-> Nil, realloc |-> FALSE,
             handed |-> w.handed]

\* part_004:70-75: ints.Data and PCMBuf.Data are reset when the caller's
\* buffer has another size than the last one
IntoReset(f, n, ch) ==
    IF n # f.size
    THEN [f EXCEPT !.size = n, !.pcm = Zeros(n * ch), !.intsLen = n * ch]
    ELSE f

\* the caller's buffer cut to the samples read, not to the frames they make
IntoTrimSamples(intsLen, n, read, ch) ==
    IF read # intsLen
    THEN [intsLen |-> read, size |-> read]
    ELSE [intsLen |-> intsLen, size |-> n]

\* the caller's buffer left at its length after a short read
IntoTrimNever(intsLen, n, read, ch) == [intsLen |-> intsLen, size |-> n]

\* part_004:86-92: ints.Data and the caller's buffer are trimmed to the read
IntoTrim(intsLen, n, read, ch) ==
    IF read # intsLen
    THEN [intsLen |-> read, size |-> ChannelLength(read, ch)]
    ELSE [intsLen |-> intsLen, size |-> n]

\* part_004:69-97: the pull that fills the caller's buffer b of n frames
IntoPull(f0, n, mode) ==
    LET ch == wavFile.channels
        f == IntoReset(f0, n, ch)
        r == PCMBuffer(f.pcm, mode)
        g == [f EXCEPT !.pcm = r.data]
        t == IntoTrim(f.intsLen, n, r.n, ch)
        b == [c \in 1..ch |->
                 [i \in 1..t.size |->
                     IF (i - 1) * ch + c <= t.intsLen
                     THEN IntToFloat(r.data[(i - 1) * ch + c], f.bitDepth,
                                     f.unsigned)
                     ELSE <<0, 0>>]]
        res == IF r.err # Nil THEN NoData(g, r, SourceReadErr(r.err))
               ELSE IF EndErr(r.n) # Nil THEN NoData(g, r, EndErr(r.n))
               ELSE [fn |-> [g EXCEPT !.intsLen = t.intsLen], pos |-> r.pos,
                     read |-> r.n, readErr |-> r.err, attempts |-> 1,
                     out |-> b, frames |-> Size(b), err |-> Nil,
                     realloc |-> FALSE, handed |-> t.intsLen]
    IN [res EXCEPT !.realloc = n # f0.size]

\* ------------------------------------------------ observations over pulls

\* how the caller sees that a delivered buffer is the last, short one: the
\* short-buffer signal, or fewer frames than the capacity it asked for
IsLast(r, capacity) ==
    \/ r.err = ErrUnexpectedEOF
    \/ r.err = Nil /\ r.frames < capacity

Delivers(r) == r.err \in {Nil, ErrUnexpectedEOF}

\* part_000:55-67 (TestWavPipe): for err == nil { buf, err = pumpFn();
\* messages++; if buf != nil { samples += len(buf[0]) } }
TestWavPipeLoop(h, r) ==
    IF h.loopErr = Nil
    THEN [h EXCEPT !.messages = @ + 1,
                   !.samples = IF r.out # <<>> THEN @ + Size(r.out) ELSE @,
                   !.loopErr = r.err]
    ELSE h

Observe(h, capacity, r) ==
    [h EXCEPT !.calls = @ + 1,
              !.caps = @ \cup {capacity},
              !.dataCalls = IF Delivers(r) THEN @ + 1 ELSE @,
              !.sum = IF Delivers(r) /\ ~h.eofSeen THEN @ + r.frames ELSE @,
              !.eofSeen = @ \/ r.err = EOF,
              !.failed = @ \/ r.readErr # Nil,
              !.prevFull = IF Delivers(r) THEN h.allFull ELSE @,
              !.allFull = IF Delivers(r) THEN @ /\ r.frames = capacity ELSE @,
              !.lastData = IF Delivers(r) THEN r.frames ELSE @,
              !.lastShort = IF Delivers(r) THEN IsLast(r, capacity) ELSE @]

\* what a pull returned; afterEof tells that an earlier pull of the stream
\* returned io.EOF, realloc that the pull made its scratch PCM buffer anew,
\* held the frames the scratch buffer had room for when the pull was called,
\* handed the length of the PCM slice the pull gave to the sample converter
Returned(capacity, r) ==
    [called |-> TRUE, capacity |-> capacity, read |-> r.read,
     readErr |-> r.readErr, attempts |-> r.attempts, out |-> r.out,
     frames |-> r.frames, err |-> r.err, afterEof |-> hist.eofSeen,
     realloc |-> r.realloc, handed |-> r.handed,
     held |-> IF fn.impl = "PumpInto" THEN fn.size
              ELSE ChannelLength(Len(fn.pcm), wavFile.channels)]

\* ------------------------------------------------------------ initial state

WavBitDepths == {8, 16}

WavSampleRates == {22050, 44100}

\* the sampleRate argument of Sink.Sink when a sink is opened on its own; it
\* is only handed on to wav.NewEncoder
SinkSampleRates == {44100}

NoFn == [impl |-> "none", bufferSize |-> 0, pcm |-> <<>>, scratch |-> <<>>,
         size |-> 0, intsLen |-> 0, bitDepth |-> 0, unsigned |-> FALSE]

NoOpen == [called |-> FALSE, fn |-> "nil", sampleRate |-> 0,
           numChannels |-> 0, err |-> Nil]

NoRet == [called |-> FALSE, capacity |-> 0, read |-> 0, readErr |-> Nil,
          attempts |-> 0, out |-> <<>>, frames |-> 0, err |-> Nil,
          afterEof |-> FALSE, realloc |-> FALSE, held |-> 0, handed |-> 0]

NoHist == [calls |-> 0, caps |-> {}, dataCalls |-> 0, sum |-> 0,
           eofSeen |-> FALSE, failed |-> FALSE, prevFull |-> TRUE,
           allFull |-> TRUE, lastData |-> 0, lastShort |-> FALSE,
           messages |-> 0, samples |-> 0, loopErr |-> Nil]

SourceIdle ==
    /\ wavFile = [valid |-> FALSE, channels |-> 1, bitDepth |-> 16,
                  sampleRate |-> 44100, frames |-> 0, tail |-> 0]
    /\ pos = 0
    /\ reads = 0
    /\ d = "nil"
    /\ fn = NoFn
    /\ openRet = NoOpen
    /\ ret = NoRet
    /\ hist = NoHist

SinkBitDepths == {8, 16, 24, 32, 64}

NoEncoder == [created |-> 0, sampleRate |-> 0, bitDepth |-> 0,
              numChannels |-> 0, writes |-> 0, closed |-> 0]

NoSinkFn == [impl |-> "none", bufferSize |-> 0, channels |-> 1,
             ints |-> <<>>, pcm |-> <<>>, pcmLen |-> 0, bitDepth |-> 0,
             unsigned |-> FALSE]

NoSinkRet == [op |-> "none", err |-> Nil, floats |-> <<>>, written |-> <<>>,
              writes |-> 0, writeErr |-> Nil, afterFailure |-> FALSE]

NoSinkHist == [pushes |-> 0, framesIn |-> 0, framesOut |-> 0,
               oversize |-> FALSE, failed |-> FALSE]

SinkIdle ==
    /\ sink = [bitDepth |-> 16, e |-> "nil"]
    /\ enc = NoEncoder
    /\ sfn = NoSinkFn
    /\ sret = NoSinkRet
    /\ shist = NoSinkHist

NoOwn == [impl |-> "none", made |-> 0, field |-> 0, fns |-> {},
          calls |-> <<>>, by |-> 0, on |-> 0]

NoConv == [step |-> "none", bitDepth |-> 0, channels |-> 0, x |-> <<>>,
           pcm |-> <<>>, back |-> <<>>, again |-> <<>>]

\* a stream whose data chunk holds whole frames
InitSource ==
    /\ conv = NoConv
    /\ own = NoOwn
    /\ wavFile \in [valid : BOOLEAN, channels : 1..MaxChannels,
                    bitDepth : WavBitDepths, sampleRate : WavSampleRates,
                    frames : 0..MaxFrames, tail : {0}]
    /\ pos = 0
    /\ reads = 0
    /\ d = "nil"
    /\ fn = NoFn
    /\ openRet = NoOpen
    /\ ret = NoRet
    /\ hist = NoHist
    /\ SinkIdle

\* ------------------------------------------------- decoding adapters: open

InvalidRet ==
    [called |-> TRUE, fn |-> "nil", sampleRate |-> 0, numChannels |-> 0,
     err |-> ErrInvalidWav]

\* the sample rate and the channels returned in each other's place
OpenedRetSwapped(impl) ==
    [called |-> TRUE, fn |-> impl, sampleRate |-> wavFile.channels,
     numChannels |-> wavFile.sampleRate, err |-> Nil]

\* wav.go:47-49, 87 (wav.go:168-174): what a successful open returns
OpenedRet(impl) ==
    [called |-> TRUE, fn |-> impl, sampleRate |-> wavFile.sampleRate,
     numChannels |-> wavFile.channels, err |-> Nil]

\* Pump.Pump handing out the closure without looking at IsValidFile
PumpOpenUnchecked(impl, bufferSize, data) ==
    /\ ~openRet.called
    /\ d' = "decoder"
    /\ fn' = [NoFn EXCEPT !.impl = impl, !.bufferSize = bufferSize,
                          !.pcm = data, !.bitDepth = wavFile.bitDepth,
                          !.unsigned = IsUnsigned(wavFile.bitDepth)]
    /\ openRet' = OpenedRet(impl)
    /\ UNCHANGED <<wavFile, pos, reads, ret, hist, sinkVars, conv, own>>

\* wav.go:41-60 (part_003:42-62, part_004:42-68): Pump.Pump up to the closure,
\* called once on the adapter.
\* The decoder is stored in p.d only once the header has been validated.
PumpOpen(impl, bufferSize, data) ==
    /\ ~openRet.called
    /\ IF ~wavFile.valid
       THEN /\ openRet' = InvalidRet
            /\ UNCHANGED <<d, fn>>
       ELSE /\ d' = "decoder"
            /\ fn' = [NoFn EXCEPT !.impl = impl, !.bufferSize = bufferSize,
                                  !.pcm = data, !.bitDepth = wavFile.bitDepth,
                                  !.unsigned = IsUnsigned(wavFile.bitDepth)]
            /\ openRet' = OpenedRet(impl)
    /\ UNCHANGED <<wavFile, pos, reads, ret, hist, sinkVars, conv, own>>

\* part_003:42-62: Pump.Pump(sourceID, bufferSize)
PumpFixedOpen ==
    \E bufferSize \in 0..MaxBufferSize :
        PumpOpen("PumpFixed", bufferSize, Zeros(bufferSize * wavFile.channels))

\* wav.go:41-60: Pump.Pump(sourceID), ib.Data is nil until the first pull
PumpSizedOpen == PumpOpen("PumpSized", 0, <<>>)

\* part_004:42-68: Pump.Pump(sourceID), size is 0 until the first pull
PumpIntoOpen == PumpOpen("PumpInto", 0, <<>>)

SourceAlloc(impl, bufferSize) ==
    [NoFn EXCEPT !.impl = impl, !.bufferSize = bufferSize,
                 !.pcm = Zeros(bufferSize * wavFile.channels),
                 !.scratch = Zeros(bufferSize * wavFile.channels),
                 !.bitDepth = wavFile.bitDepth,
                 !.unsigned = IsUnsigned(wavFile.bitDepth)]

\* part_005:45-81: the allocator of Source.Source(); the decoder is stored
\* in p.decoder before the header is validated
SourceMethodOpen ==
    \E bufferSize \in 0..MaxBufferSize :
        /\ ~openRet.called
        /\ d' = "decoder"
        /\ IF ~wavFile.valid
           THEN /\ openRet' = InvalidRet
                /\ UNCHANGED fn
           ELSE /\ fn' = SourceAlloc("SourceMethod", bufferSize)
                /\ openRet' = OpenedRet("SourceMethod")
        /\ UNCHANGED <<wavFile, pos, reads, ret, hist, sinkVars, conv, own>>

\* wav.go:140-176: the allocator of Source(rs); the decoder is a local
SourceOpen ==
    \E bufferSize \in 0..MaxBufferSize :
        /\ ~openRet.called
        /\ IF ~wavFile.valid
           THEN /\ openRet' = InvalidRet
                /\ UNCHANGED fn
           ELSE /\ fn' = SourceAlloc("Source", bufferSize)
                /\ openRet' = OpenedRet("Source")
        /\ UNCHANGED <<wavFile, d, pos, reads, ret, hist, sinkVars, conv, own>>

\* ---------------------------------------------- decoding adapters: actions

\* a pull is followed while the stream is readable: how the decoder goes on
\* after a failed read is not known, and the stream is given up
CanPull(impl) ==
    /\ fn.impl = impl
    /\ hist.calls < MaxCalls
    /\ ~hist.failed

Pulled(capacity, r, h) ==
    /\ fn' = r.fn
    /\ pos' = r.pos
    /\ reads' = reads + r.attempts
    /\ ret' = Returned(capacity, r)
    /\ hist' = Observe(h, capacity, r)
    /\ UNCHANGED <<wavFile, d, openRet, sinkVars, conv, own>>

\* part_003:64-86: pull of Pump.Pump(sourceID, bufferSize), as TestWavPipe
\* drives it
PumpFixedPull ==
    \E mode \in FailModes :
        /\ CanPull("PumpFixed")
        /\ LET r == PumpPull(fn, fn.bufferSize, mode)
           IN Pulled(fn.bufferSize, r, TestWavPipeLoop(hist, r))

\* wav.go:61-87: pull(bufferSize) of Pump.Pump(sourceID)
PumpSizedPull ==
    \E bufferSize \in 0..MaxBufferSize, mode \in FailModes :
        /\ CanPull("PumpSized")
        /\ LET f == [fn EXCEPT !.pcm = PumpRealloc(fn.pcm, bufferSize,
                                                   wavFile.channels)]
               r == [PumpPull(f, bufferSize, mode) EXCEPT
                        !.realloc = PumpReallocs(fn.pcm, bufferSize)]
           IN Pulled(bufferSize, r, hist)

\* part_004:69-97: pull(b) of Pump.Pump(sourceID), b holding n frames
PumpIntoPull ==
    \E n \in 0..MaxBufferSize, mode \in FailModes :
        /\ CanPull("PumpInto")
        /\ Pulled(n, IntoPull(fn, n, mode), hist)

\* part_005:83-126: the SourceFunc of Source.Source()
SourceMethodPull ==
    \E mode \in FailModes :
        /\ CanPull("SourceMethod")
        /\ d = "decoder"
        /\ Pulled(fn.bufferSize, SourcePull(fn, fn.bufferSize, mode), hist)

\* wav.go:178-221: the SourceFunc of Source(rs)
SourceFuncPull ==
    \E mode \in FailModes :
        /\ CanPull("Source")
        /\ Pulled(fn.bufferSize, SourcePull(fn, fn.bufferSize, mode), hist)

NextSource ==
    \/ PumpFixedOpen
    \/ PumpSizedOpen
    \/ PumpIntoOpen
    \/ SourceMethodOpen
    \/ SourceOpen
    \/ PumpFixedPull
    \/ PumpSizedPull
    \/ PumpIntoPull
    \/ SourceMethodPull
    \/ SourceFuncPull

SpecSource == InitSource /\ [][NextSource]_vars

\* ------------------------------------------- a data chunk cut inside a frame
\* The header is valid and the data chunk holds wavFile.frames whole frames
\* followed by wavFile.tail samples of one more: a file that was cut short,
\* or whose chunk size is no multiple of the block size.  The decoder hands
\* out samples, not frames (PCMBuffer returns the number of samples it read).

InitTruncated ==
    /\ conv = NoConv
    /\ own = NoOwn
    /\ \E ch \in 1..MaxChannels :
           wavFile \in [valid : {TRUE}, channels : {ch},
                        bitDepth : WavBitDepths, sampleRate : {44100},
                        frames : 0..MaxFrames, tail : 0..(ch - 1)]
    /\ pos = 0
    /\ reads = 0
    /\ d = "nil"
    /\ fn = NoFn
    /\ openRet = NoOpen
    /\ ret = NoRet
    /\ hist = NoHist
    /\ SinkIdle

SpecTruncated == InitTruncated /\ [][NextSource]_vars

\* ------------------------------------------------- encoding adapters: push

\* the widest sample the model's integers hold: a push on a sink of a wider
\* bit depth is not followed
MaxSampleBits == 32

\* the supported bit depths (wav.go:28, 224; the method Supported.BitDepth
\* that part_000:211-226 tests)
SupportedBitDepths == {8, 16, 24, 32}

\* the float buffer a caller pushes: frames n, channel-major, its samples
\* told apart by seed
FloatBuf(seed, n, ch) ==
    [c \in 1..ch |-> [i \in 1..n |-> <<((seed + c + 2 * i) % 7) - 3, 2>>]]

\* the samples of a float buffer one channel after the other
InterleavePlanar(b) ==
    [j \in 1..(Len(b) * Size(b)) |->
        b[((j - 1) \div Size(b)) + 1][((j - 1) % Size(b)) + 1]]

\* the samples of a float buffer in interleaved order: frame i, channel c
\* is sample i*channels + c
Interleave(b) ==
    [j \in 1..(Len(b) * Size(b)) |->
        b[((j - 1) % Len(b)) + 1][((j - 1) \div Len(b)) + 1]]

\* Float64.AsInterInt(bitDepth, unsigned): a new interleaved buffer
AsInterInt(b, bitDepth, unsigned) ==
    [j \in 1..(Len(b) * Size(b)) |->
        FloatToInt(Interleave(b)[j], bitDepth, unsigned)]

\* signal.FloatingAsSigned / FloatingAsUnsigned(floats, ints): converts
\* min(floats.Len(), ints.Len()) samples into ints
FloatingAsInts(b, ints, bitDepth, unsigned) ==
    [j \in 1..Len(ints) |->
        IF j <= Len(b) * Size(b)
        THEN FloatToInt(Interleave(b)[j], bitDepth, unsigned) ELSE ints[j]]

\* PCM.Data left at its length when fewer frames were converted
SinkTrimNever(pcmLen, n, length, ch) == pcmLen

\* wav.go:265-266, 282-283: PCM.Data is cut to the n frames converted when
\* they are not the whole scratch buffer
SinkTrim(pcmLen, n, length, ch) ==
    IF n # length THEN Min(pcmLen, ch * n) ELSE pcmLen

\* PCM.Data left cut after the write
SinkRestoreNever(pcmLen, n, length, cap, writeErr) == pcmLen

\* PCM.Data put back after the write instead of deferred: the return on a
\* failed write leaves it cut
SinkRestoreOnSuccess(pcmLen, n, length, cap, writeErr) ==
    IF n # length /\ writeErr = Nil THEN cap ELSE pcmLen

\* wav.go:268-270, 285-287: the deferred PCM.Data = PCM.Data[:ints.Cap()],
\* run when the push returns, whatever Write returned
SinkRestore(pcmLen, n, length, cap, writeErr) ==
    IF n # length THEN cap ELSE pcmLen

\* signal.ReadInt(ints, PCM.Data) (wav.go:272), and the loop of wav.go:289-291
ReadInt(ints, data, dataLen) ==
    [j \in 1..Len(data) |->
        IF j <= Min(Len(ints), dataLen) THEN ints[j] ELSE data[j]]

\* wav.go:263-297 (part_005:175-209): sinkSigned and sinkUnsigned around the
\* encoder's Write, which returns writeErr; the result names the PCM the
\* encoder is handed
SinkPush(f, b, bitDepth, writeErr) ==
    LET ch == f.channels
        ints == FloatingAsInts(b, f.ints, bitDepth, f.unsigned)
        n == ChannelLength(Min(Len(b) * Size(b), Len(f.ints)), ch)
        length == ChannelLength(Len(f.ints), ch)
        trimmed == SinkTrim(f.pcmLen, n, length, ch)
        data == ReadInt(ints, f.pcm, trimmed)
    IN [fn |-> [f EXCEPT !.ints = ints, !.pcm = data,
                         !.pcmLen = SinkRestore(trimmed, n, length, Len(f.pcm),
                                                writeErr)],
        written |-> SubSeq(data, 1, trimmed)]

\* part_004:131-133: ints.Data is made anew when the buffer's size changes
ResizeInts(ints, b, ch) ==
    IF Size(b) # ChannelLength(Len(ints), ch)
    THEN Zeros(Size(b) * Len(b)) ELSE ints

\* part_004:130-135: the push of that Sink.Sink up to the encoder's Write
ResizePush(f, b, bitDepth) ==
    LET ints == FloatingAsInts(b, ResizeInts(f.ints, b, f.channels), bitDepth,
                               f.unsigned)
    IN [fn |-> [f EXCEPT !.ints = ints], written |-> ints]

\* wav.go:111-114 (part_003:118-121): a new PCM buffer on every push
EachPush(f, b, bitDepth) ==
    [fn |-> f, written |-> AsInterInt(b, bitDepth, f.unsigned)]

\* the failure formatted with %v: its text is kept, the error itself is lost
SinkWriteErrFlattened(err) ==
    IF err # Nil THEN <<"error writing PCM buffer: write failure">> ELSE Nil

\* wav.go:273-275, 292-294 (part_005:185-187, 204-206): a failed Write is
\* wrapped with %w
SinkWriteErr(err) ==
    IF err # Nil THEN Wrap("error writing PCM buffer", err) ELSE Nil

\* part_004:136-138: a failed Write is wrapped with %w
ResizeWriteErr(err) ==
    IF err # Nil THEN Wrap("failed to write PCM buffer", err) ELSE Nil

\* wav.go:113 (part_003:120): return s.e.Write(ib)
EachWriteErr(err) == err

\* -------------------------------------------------- encoding adapters: open

InitSink ==
    /\ SourceIdle
    /\ conv = NoConv
    /\ own = NoOwn
    /\ sink \in [bitDepth : SinkBitDepths, e : {"nil"}]
    /\ enc = NoEncoder
    /\ sfn = NoSinkFn
    /\ sret = NoSinkRet
    /\ shist = NoSinkHist

\* wav.NewEncoder(w, sampleRate, bitDepth, numChannels, wavOutFormat)
NewEncoder(sampleRate, bitDepth, numChannels) ==
    [created |-> enc.created + 1, sampleRate |-> sampleRate,
     bitDepth |-> bitDepth, numChannels |-> numChannels,
     writes |-> 0, closed |-> 0]

SinkRet(op, err) ==
    [NoSinkRet EXCEPT !.op = op, !.err = err]

\* the allocation of a sink: no bit depth is turned down, the encoder is
\* created with whatever the Sink value holds
SinkAlloc(impl, field, sampleRate, numChannels, bufferSize, scratch) ==
    /\ sfn.impl = "none"
    /\ enc' = NewEncoder(sampleRate, sink.bitDepth, numChannels)
    /\ sink' = [sink EXCEPT !.e = field]
    /\ sfn' = [impl |-> impl, bufferSize |-> bufferSize,
               channels |-> numChannels, ints |-> scratch, pcm |-> scratch,
               pcmLen |-> Len(scratch), bitDepth |-> sink.bitDepth,
               unsigned |-> IsUnsigned(sink.bitDepth)]
    /\ sret' = SinkRet("sink", Nil)
    /\ UNCHANGED <<shist, sourceVars, conv, own>>

\* wav.go:96-110 (part_003:103-117): Sink.Sink, the encoder kept in s.e
SinkEachOpen ==
    \E sampleRate \in SinkSampleRates, numChannels \in 1..MaxChannels :
        SinkAlloc("SinkEach", "encoder", sampleRate, numChannels, 0, <<>>)

\* part_004:109-128: Sink.Sink, ints.Data is nil until the first push
SinkResizeOpen ==
    \E sampleRate \in SinkSampleRates, numChannels \in 1..MaxChannels :
        SinkAlloc("SinkResize", "encoder", sampleRate, numChannels, 0, <<>>)

\* part_005:137-173: the allocator of Sink.Sink(), the encoder kept in
\* s.encoder
SinkMethodOpen ==
    \E sampleRate \in SinkSampleRates, numChannels \in 1..MaxChannels,
       bufferSize \in 0..MaxBufferSize :
        SinkAlloc("SinkMethod", "encoder", sampleRate, numChannels,
                  bufferSize, Zeros(bufferSize * numChannels))

\* wav.go:225-261: the allocator of Sink(ws, bitDepth), the encoder a local
SinkOpen ==
    \E sampleRate \in SinkSampleRates, numChannels \in 1..MaxChannels,
       bufferSize \in 0..MaxBufferSize :
        SinkAlloc("Sink", "nil", sampleRate, numChannels,
                  bufferSize, Zeros(bufferSize * numChannels))

\* ----------------------------------------------- encoding adapters: actions

WriteModes == {"ok", "fail"}

\* encoder.Write(&PCM)
Write(mode) == IF mode = "ok" THEN Nil ELSE ErrWrite

CanPush(impl) ==
    /\ sfn.impl = impl
    /\ shist.pushes < MaxPushes
    /\ sink.bitDepth <= MaxSampleBits

\* a push that looks whether the sink has been flushed and, if so, returns an
\* error without converting or writing
PushedUnlessFlushed(b, r, writeErr, err) ==
    /\ sfn' = IF enc.closed > 0 THEN sfn ELSE r.fn
    /\ enc' = IF enc.closed > 0 THEN enc ELSE [enc EXCEPT !.writes = @ + 1]
    /\ sret' = IF enc.closed > 0
               THEN [op |-> "push", err |-> <<"sink is flushed">>,
                     floats |-> b, written |-> <<>>, writes |-> 0,
                     writeErr |-> Nil, afterFailure |-> shist.failed]
               ELSE [op |-> "push", err |-> err, floats |-> b,
                     written |-> r.written, writes |-> 1,
                     writeErr |-> writeErr, afterFailure |-> shist.failed]
    /\ shist' = [shist EXCEPT
                    !.pushes = @ + 1,
                    !.failed = @ \/ (enc.closed = 0 /\ writeErr # Nil),
                    !.framesIn = @ + Size(b),
                    !.framesOut = IF enc.closed > 0 THEN @
                                  ELSE @ + ChannelLength(Len(r.written),
                                                         sfn.channels),
                    !.oversize = @ \/ (/\ sfn.impl \in {"Sink", "SinkMethod"}
                                       /\ Size(b) > sfn.bufferSize)]
    /\ UNCHANGED <<sink, sourceVars, conv, own>>

\* a push: the conversion r, one call of the encoder's Write returning
\* writeErr, and the error err the push returns; no sink looks at what an
\* earlier push returned, nor at whether Flush has been called
Pushed(b, r, writeErr, err) ==
    /\ sfn' = r.fn
    /\ enc' = [enc EXCEPT !.writes = @ + 1]
    /\ sret' = [op |-> "push", err |-> err, floats |-> b,
                written |-> r.written, writes |-> 1, writeErr |-> writeErr,
                afterFailure |-> shist.failed]
    /\ shist' = [shist EXCEPT
                    !.pushes = @ + 1,
                    !.failed = @ \/ writeErr # Nil,
                    !.framesIn = @ + Size(b),
                    !.framesOut = @ + ChannelLength(Len(r.written), sfn.channels),
                    !.oversize = @ \/ (/\ sfn.impl \in {"Sink", "SinkMethod"}
                                       /\ Size(b) > sfn.bufferSize)]
    /\ UNCHANGED <<sink, sourceVars, conv, own>>

\* the buffers the next push may carry: any frame count up to one more than
\* the largest allocation, the k-th push of a stream with contents of its own
PushBufs == {FloatBuf(shist.pushes, n, sfn.channels) :
                n \in 0..(MaxBufferSize + 1)}

\* wav.go:111-114 (part_003:118-121): the push of Sink.Sink
SinkEachPush ==
    \E b \in PushBufs, mode \in WriteModes :
        /\ CanPush("SinkEach")
        /\ Pushed(b, EachPush(sfn, b, sink.bitDepth), Write(mode),
                  EachWriteErr(Write(mode)))

\* part_004:130-140: the push of Sink.Sink with the kept ints buffer
SinkResizePush ==
    \E b \in PushBufs, mode \in WriteModes :
        /\ CanPush("SinkResize")
        /\ Pushed(b, ResizePush(sfn, b, sfn.bitDepth), Write(mode),
                  ResizeWriteErr(Write(mode)))

\* part_005:175-209: sinkSigned / sinkUnsigned, methods of Sink
SinkMethodPush ==
    \E b \in PushBufs, mode \in WriteModes :
        /\ CanPush("SinkMethod")
        /\ sink.e = "encoder"
        /\ Pushed(b, SinkPush(sfn, b, sfn.bitDepth, Write(mode)), Write(mode),
                  SinkWriteErr(Write(mode)))

\* wav.go:263-297: sinkSigned / sinkUnsigned
SinkFuncPush ==
    \E b \in PushBufs, mode \in WriteModes :
        /\ CanPush("Sink")
        /\ Pushed(b, SinkPush(sfn, b, sfn.bitDepth, Write(mode)), Write(mode),
                  SinkWriteErr(Write(mode)))

\* encoder.Close()
CloseModes == {"ok", "fail"}

Close(mode) == IF mode = "ok" THEN Nil ELSE ErrWrite

\* wav.go:92 (part_003:99): return s.e.Close()
EachFlushErr(err) == err

\* part_004:102-105: a failed Close is wrapped with %w
ResizeFlushErr(err) ==
    IF err # Nil THEN Wrap("failed to flush wav encoder", err) ELSE Nil

\* the result of Close wrapped without looking at it: fmt.Errorf gives an
\* error for the nil it wraps
FlushErrUnchecked(err) == Wrap("error flushing WAV encoder", err)

\* wav.go:301-304 (part_005:130-133): a failed Close is wrapped with %w
FlushErr(err) ==
    IF err # Nil THEN Wrap("error flushing WAV encoder", err) ELSE Nil

\* wav.go:90-93, 299-306 (part_004:100-106, part_005:128-134): Flush closes
\* the encoder the sink created
Flush ==
    \E mode \in CloseModes :
        /\ sfn.impl # "none"
        /\ enc.closed = 0
        /\ enc' = [enc EXCEPT !.closed = @ + 1]
        /\ sret' = [SinkRet("flush",
                       CASE sfn.impl = "SinkEach" -> EachFlushErr(Close(mode))
                         [] sfn.impl = "SinkResize" -> ResizeFlushErr(Close(mode))
                         [] OTHER -> FlushErr(Close(mode)))
                       EXCEPT !.writeErr = Close(mode),
                              !.afterFailure = shist.failed]
        /\ UNCHANGED <<sink, sfn, shist, sourceVars, conv, own>>

\* wav.go:90-93 (part_004:100-106, part_005:128-134): Sink.Flush on a Sink
\* value whose Sink has not been called.  s.e is nil: Close of the nil
\* encoder returns nil and closes nothing, and no output is written.
FlushUnallocated ==
    /\ sfn.impl = "none"
    /\ sink.e = "nil"
    /\ sret.op = "none"
    /\ sret' = SinkRet("flush", FlushErr(Nil))
    /\ UNCHANGED <<sink, enc, sfn, shist, sourceVars, conv, own>>

NextSink ==
    \/ SinkEachOpen
    \/ SinkResizeOpen
    \/ SinkMethodOpen
    \/ SinkOpen
    \/ SinkEachPush
    \/ SinkResizePush
    \/ SinkMethodPush
    \/ SinkFuncPush
    \/ Flush
    \/ FlushUnallocated

SpecSink == InitSink /\ [][NextSink]_vars

\* ------------------------------------------------------ sample round trip
\* One buffer of a stream taken through the sink's conversion, the source's
\* and the sink's again, as in a pipe that copies a file: the floats x are
\* encoded at a bit depth, the PCM decoded, and the decoded buffer encoded.

MaxStep == 3

\* the numerators n of the samples n / 2^(depth-1) tried at a depth: around
\* silence, around half of the full scale and at both ends of the range
SampleValues(bitDepth) ==
    LET half == Pow2(bitDepth - 2)
    IN (-MaxStep..MaxStep)
       \cup {half + k : k \in -1..1} \cup {-half + k : k \in -1..1}
       \cup {half + (half - 1) - k : k \in 0..1}
       \cup {(-half - half) + k : k \in 0..1}

\* a buffer of frames x ch samples representable at the bit depth, the first
\* of them n / 2^(depth-1) and no two of them alike
SampleBuf(n, frames, ch, bitDepth) ==
    [c \in 1..ch |->
        [i \in 1..frames |->
            LET k == (i - 1) * ch + (c - 1)
            IN <<IF n > 0 THEN n - k ELSE n + k, bitDepth - 1>>]]

InitConvert ==
    /\ SourceIdle
    /\ SinkIdle
    /\ conv = NoConv
    /\ own = NoOwn

\* wav.go:112 (wav.go:265, 282): the sink's conversion of a pushed buffer
Encode ==
    \E bitDepth \in SupportedBitDepths, ch \in 1..MaxChannels,
       frames \in 1..MaxBufferSize :
        \E n \in SampleValues(bitDepth) :
            LET x == SampleBuf(n, frames, ch, bitDepth)
            IN /\ conv.step = "none"
               /\ conv' = [NoConv EXCEPT
                              !.step = "encoded", !.bitDepth = bitDepth,
                              !.channels = ch, !.x = x,
                              !.pcm = AsInterInt(x, bitDepth,
                                                 IsUnsigned(bitDepth))]
               /\ UNCHANGED <<sourceVars, sinkVars, own>>

\* wav.go:76-81 (wav.go:196-198, 217-219): the source's conversion of the
\* PCM just written
Decode ==
    /\ conv.step = "encoded"
    /\ conv' = [conv EXCEPT
                   !.step = "decoded",
                   !.back = AsFloat64(conv.pcm, conv.channels, conv.bitDepth,
                                      IsUnsigned(conv.bitDepth))]
    /\ UNCHANGED <<sourceVars, sinkVars, own>>

\* wav.go:112: the sink's conversion of the buffer just pulled
Reencode ==
    /\ conv.step = "decoded"
    /\ conv' = [conv EXCEPT
                   !.step = "reencoded",
                   !.again = AsInterInt(conv.back, conv.bitDepth,
                                        IsUnsigned(conv.bitDepth))]
    /\ UNCHANGED <<sourceVars, sinkVars, own>>

NextConvert ==
    \/ Encode
    \/ Decode
    \/ Reencode

SpecConvert == InitConvert /\ [][NextConvert]_vars

\* ---------------------------------------------------------------- the pipe
\* A source and a sink run as the tests run them: the source is opened, the
\* sink is given the sample rate and the channels the source reported, every
\* buffer pulled is pushed, and the sink is flushed when the loop has ended.

\* the bit depths the sinks of TestWavPipe are given (wav_test.go:31-41)
PipeBitDepths == {16, 8, 24}

InitPipe ==
    /\ conv = NoConv
    /\ own = NoOwn
    /\ wavFile \in [valid : BOOLEAN, channels : 1..MaxChannels,
                    bitDepth : WavBitDepths, sampleRate : WavSampleRates,
                    frames : 0..MaxFrames, tail : {0}]
    /\ pos = 0
    /\ reads = 0
    /\ d = "nil"
    /\ fn = NoFn
    /\ openRet = NoOpen
    /\ ret = NoRet
    /\ hist = NoHist
    /\ sink \in [bitDepth : PipeBitDepths, e : {"nil"}]
    /\ enc = NoEncoder
    /\ sfn = NoSinkFn
    /\ sret = NoSinkRet
    /\ shist = NoSinkHist

\* the sink of the same generation as the source
PipeSinkImpl ==
    CASE fn.impl = "PumpInto" -> "SinkResize"
      [] fn.impl = "SourceMethod" -> "SinkMethod"
      [] fn.impl = "Source" -> "Sink"
      [] OTHER -> "SinkEach"

\* part_000:47-53 (wav_test.go:54-57): the sink is allocated with the sample
\* rate and the channels the source's open returned, and the pipe's buffer
\* size
PipeSinkOpen ==
    /\ openRet.called
    /\ openRet.err = Nil
    /\ LET impl == PipeSinkImpl
           scratch == IF impl \in {"Sink", "SinkMethod"}
                      THEN Zeros(fn.bufferSize * openRet.numChannels)
                      ELSE <<>>
       IN SinkAlloc(impl, IF impl = "Sink" THEN "nil" ELSE "encoder",
                    openRet.sampleRate, openRet.numChannels,
                    IF impl \in {"Sink", "SinkMethod"} THEN fn.bufferSize ELSE 0,
                    scratch)

\* part_000:57-58: the loop pulls while no pull has returned an error, once
\* the buffer of the pull before has been pushed
PipeReady ==
    /\ sfn.impl # "none"
    /\ enc.closed = 0
    /\ hist.dataCalls = shist.pushes
    /\ ~shist.failed
    /\ ret.called => ret.err = Nil

PipePumpFixedPull == PipeReady /\ PumpFixedPull

PipePumpSizedPull == PipeReady /\ PumpSizedPull

PipePumpIntoPull == PipeReady /\ PumpIntoPull

PipeSourceMethodPull == PipeReady /\ SourceMethodPull

PipeSourceFuncPull == PipeReady /\ SourceFuncPull

\* part_000:59: the buffer the pull delivered is pushed
PipePush ==
    \E mode \in WriteModes :
        /\ sfn.impl # "none"
        /\ enc.closed = 0
        /\ hist.dataCalls > shist.pushes
        /\ CASE sfn.impl = "SinkEach" ->
                   Pushed(ret.out, EachPush(sfn, ret.out, sink.bitDepth),
                          Write(mode), EachWriteErr(Write(mode)))
             [] sfn.impl = "SinkResize" ->
                   Pushed(ret.out, ResizePush(sfn, ret.out, sfn.bitDepth),
                          Write(mode), ResizeWriteErr(Write(mode)))
             [] OTHER ->
                   Pushed(ret.out,
                          SinkPush(sfn, ret.out, sfn.bitDepth, Write(mode)),
                          Write(mode), SinkWriteErr(Write(mode)))

\* part_000:69-72: the sink is flushed when the loop has ended
PipeFlush ==
    /\ hist.dataCalls = shist.pushes
    /\ shist.failed \/ (ret.called /\ ret.err # Nil)
    /\ Flush

NextPipe ==
    \/ PumpFixedOpen
    \/ PumpSizedOpen
    \/ PumpIntoOpen
    \/ SourceMethodOpen
    \/ SourceOpen
    \/ PipeSinkOpen
    \/ PipePumpFixedPull
    \/ PipePumpSizedPull
    \/ PipePumpIntoPull
    \/ PipeSourceMethodPull
    \/ PipeSourceFuncPull
    \/ PipePush
    \/ PipeFlush

SpecPipe == InitPipe /\ [][NextPipe]_vars

\* ------------------------------------------------- open called once more
\* One Pump, Source or Sink value on which open is called more than once.
\* The k-th open makes the k-th decoder (encoder); own.field is the one the
\* adapter's field points to, own.fns the opens that returned a function,
\* own.calls[k] the PCMBuffer (Write) calls made on the k-th, and own.by and
\* own.on tell which function made the most recent call and on which.

MaxOpens == 2

ReopenPumps == {"PumpFixed", "PumpSized", "PumpInto"}

ReopenSinks == {"SinkEach", "SinkResize", "SinkMethod"}

InitReopen ==
    /\ SourceIdle
    /\ SinkIdle
    /\ conv = NoConv
    /\ own = NoOwn

\* an open call on the adapter own.impl belongs to, making one more decoder
\* or encoder
Opens(impl) ==
    /\ own.impl \in {"none", impl}
    /\ own.made < MaxOpens

Opened(impl, field, returned) ==
    /\ own' = [own EXCEPT
                  !.impl = impl,
                  !.made = @ + 1,
                  !.field = field,
                  !.fns = IF returned THEN @ \cup {own.made + 1} ELSE @,
                  !.calls = Append(@, 0)]
    /\ UNCHANGED <<sourceVars, sinkVars, conv>>

\* wav.go:42-47 (part_003:43-48, part_004:43-48): decoder := wav.NewDecoder(p);
\* p.d = decoder once the header is valid, whatever p.d held
ReopenPump ==
    \E impl \in ReopenPumps, valid \in BOOLEAN :
        /\ Opens(impl)
        /\ Opened(impl, IF valid THEN own.made + 1 ELSE own.field, valid)

\* part_005:47-50: p.decoder = wav.NewDecoder(p) before the header is looked at
ReopenSourceMethod ==
    \E valid \in BOOLEAN :
        /\ Opens("SourceMethod")
        /\ Opened("SourceMethod", own.made + 1, valid)

\* wav.go:142-145: decoder := wav.NewDecoder(rs), kept by the closures only
ReopenSource ==
    \E valid \in BOOLEAN :
        /\ Opens("Source")
        /\ Opened("Source", own.field, valid)

\* wav.go:97 (part_003:104, part_004:110, part_005:139): s.e = wav.NewEncoder(...)
ReopenSinkField ==
    \E impl \in ReopenSinks :
        /\ Opens(impl)
        /\ Opened(impl, own.made + 1, TRUE)

\* wav.go:227: encoder := wav.NewEncoder(...), kept by the closures only
ReopenSink ==
    /\ Opens("Sink")
    /\ Opened("Sink", own.field, TRUE)

\* the decoder a pull of the k-th function reads: p.d.PCMBuffer(ib) (wav.go:66,
\* part_003:65, part_004:78, part_005:86) reads the one in the field when the
\* pull runs, decoder.PCMBuffer(&pcm) (wav.go:181, 205) the one of its open
DecoderOf(k) == IF own.impl = "Source" THEN k ELSE own.field

\* the encoder a push of the k-th function writes: s.e.Write(ib) (wav.go:113,
\* part_003:120, part_004:136, part_005:185) against encoder.Write(&PCM)
\* (wav.go:273, 292)
EncoderOf(k) == IF own.impl = "Sink" THEN k ELSE own.field

Called(k, on) ==
    /\ k \in own.fns
    /\ own.calls[on] < MaxCalls - own.made
    /\ own' = [own EXCEPT !.calls[on] = @ + 1, !.by = k, !.on = on]
    /\ UNCHANGED <<sourceVars, sinkVars, conv>>

\* a pull of any of the functions the opens returned, in any order
ReopenPull ==
    \E k \in 1..MaxOpens :
        /\ own.impl \in ReopenPumps \cup {"SourceMethod", "Source"}
        /\ Called(k, DecoderOf(k))

\* a push of any of the functions the sink calls returned, in any order
ReopenPush ==
    \E k \in 1..MaxOpens :
        /\ own.impl \in ReopenSinks \cup {"Sink"}
        /\ Called(k, EncoderOf(k))

NextReopen ==
    \/ ReopenPump
    \/ ReopenSourceMethod
    \/ ReopenSource
    \/ ReopenSinkField
    \/ ReopenSink
    \/ ReopenPull
    \/ ReopenPush

SpecReopen == InitReopen /\ [][NextReopen]_vars

\* ------------------------------------------------------------------ claims

\* every pull so far asked for the same capacity, of at least one frame
FixedCapacity == Cardinality(hist.caps) = 1 /\ 0 \notin hist.caps

\* the decoder has handed out the whole data chunk, without a failure
Exhausted == pos = TotalSamples /\ ~hist.failed

\* C1: with a fixed capacity C >= 1 and no read failure, the frames returned
\* by the pulls up to the first io.EOF are exactly the frames the decoder has
\* consumed, and at the first io.EOF they sum to the N frames of the source.
C1_FrameConservation ==
    (fn.impl # "none" /\ FixedCapacity /\ ~hist.failed) =>
        /\ hist.sum * wavFile.channels = pos
        /\ hist.eofSeen => hist.sum = wavFile.frames

C1_Witness ==
    /\ fn.impl = "Source"
    /\ hist.caps = {2}
    /\ ~hist.failed
    /\ hist.eofSeen
    /\ wavFile.frames = 3
    /\ wavFile.channels = 2
    /\ hist.sum = 3

\* C2: with N frames pulled at a fixed capacity C where N mod C # 0, every
\* data-carrying pull before the final one returns exactly C frames, and the
\* final one returns exactly N mod C frames and is marked as the short, last
\* buffer.
C2_ShortBufferCorrectness ==
    \A C \in hist.caps :
        (/\ fn.impl # "none"
         /\ hist.caps = {C}
         /\ C >= 1
         /\ ~hist.failed
         /\ wavFile.frames % C # 0) =>
            /\ hist.prevFull
            /\ pos < TotalSamples => hist.allFull
            /\ pos = TotalSamples =>
                  hist.lastData = wavFile.frames % C /\ hist.lastShort

C2_Witness ==
    /\ fn.impl = "PumpInto"
    /\ hist.caps = {2}
    /\ Exhausted
    /\ wavFile.frames = 3
    /\ hist.dataCalls = 2
    /\ hist.lastData = 1
    /\ hist.lastShort
    /\ Size(ret.out) = 1

\* the loop of TestWavPipe has run to its end over a pull of capacity >= 1
LoopDone ==
    /\ fn.impl = "PumpFixed"
    /\ fn.bufferSize >= 1
    /\ ~hist.failed
    /\ hist.loopErr # Nil

\* the frames of the last data-carrying pull of S frames at capacity C
LastFrames(S, C) == IF S % C = 0 THEN C ELSE S % C

\* C3 as stated, for a source of S > 0 frames: decoding S frames at capacity
\* C takes exactly ceil(S/C) pull calls, the last one holding S mod C frames
\* (C when C divides S), and the frames sum to S.
C3_CeilPullCalls ==
    (LoopDone /\ wavFile.frames > 0) =>
        /\ hist.messages = ChannelLength(wavFile.frames, fn.bufferSize)
        /\ hist.samples = wavFile.frames
        /\ wavFile.frames > 0 =>
              hist.lastData = LastFrames(wavFile.frames, fn.bufferSize)

\* C3 amended: exactly ceil(S/C) pull calls carry data, the last of them
\* holding S mod C frames (C when C divides S), and their frames sum to S;
\* the loop makes ceil(S/C) calls when S mod C # 0, the short pull ending it,
\* and S/C + 1 calls when C divides S, the extra call returning io.EOF.
C3_DataPullCalls ==
    LoopDone =>
        /\ hist.dataCalls = ChannelLength(wavFile.frames, fn.bufferSize)
        /\ hist.messages = IF wavFile.frames % fn.bufferSize = 0
                           THEN wavFile.frames \div fn.bufferSize + 1
                           ELSE ChannelLength(wavFile.frames, fn.bufferSize)
        /\ hist.samples = wavFile.frames
        /\ wavFile.frames > 0 =>
              hist.lastData = LastFrames(wavFile.frames, fn.bufferSize)

C3_Witness ==
    /\ LoopDone
    /\ wavFile.frames = 4
    /\ fn.bufferSize = 2
    /\ hist.dataCalls = 2
    /\ hist.messages = 3
    /\ hist.loopErr = EOF

\* C4: a pull whose read returned zero samples and no error returns io.EOF
\* itself, not wrapped, and no frames.
C4_EndOfStream ==
    (ret.called /\ ret.read = 0 /\ ret.readErr = Nil) =>
        /\ ret.err = EOF
        /\ ret.out = <<>>
        /\ ret.frames = 0

C4_Witness ==
    /\ fn.impl = "Source"
    /\ ret.called
    /\ ret.read = 0
    /\ ret.readErr = Nil
    /\ wavFile.frames > 0
    /\ pos = TotalSamples

\* C5: a pull of Pump.Pump whose read returned fewer frames than the capacity,
\* and more than none, returns the buffer trimmed to the frames read together
\* with io.ErrUnexpectedEOF, which is neither nil nor io.EOF; a full buffer
\* comes with nil, and no buffer of the full capacity carries the signal.
C5_ShortSignal ==
    (/\ ret.called
     /\ fn.impl \in {"PumpFixed", "PumpSized"}
     /\ ret.readErr = Nil
     /\ ret.read % wavFile.channels = 0) =>
        LET got == ret.read \div wavFile.channels
        IN /\ (0 < got /\ got < ret.capacity) =>
                 /\ ret.err = ErrUnexpectedEOF
                 /\ Len(ret.out) = wavFile.channels
                 /\ \A c \in 1..Len(ret.out) : Len(ret.out[c]) = got
           /\ (0 < got /\ got = ret.capacity) =>
                 /\ ret.err = Nil
                 /\ Size(ret.out) = ret.capacity
           /\ ret.err = ErrUnexpectedEOF =>
                 /\ Size(ret.out) < ret.capacity
                 /\ ret.err # Nil
                 /\ ret.err # EOF

C5_Witness ==
    /\ fn.impl = "PumpSized"
    /\ ret.called
    /\ ret.capacity = 2
    /\ ret.read = wavFile.channels
    /\ ret.err = ErrUnexpectedEOF
    /\ Size(ret.out) = 1

\* the sinks that keep a scratch PCM buffer between pushes
KeepsScratch == sfn.impl \in {"Sink", "SinkMethod", "SinkResize"}

\* C6: when no push carried more frames than the sink was allocated for, the
\* PCM handed to the encoder by a push has exactly frames x channels samples
\* and they are the samples of that push's buffer, converted, in interleaved
\* order: nothing left from an earlier, larger push is written.
C6_NoStaleSamples ==
    (sret.op = "push" /\ KeepsScratch /\ ~shist.oversize) =>
        /\ Len(sret.written) = Size(sret.floats) * sfn.channels
        /\ sret.written = AsInterInt(sret.floats, sink.bitDepth, sfn.unsigned)

C6_Witness ==
    /\ sfn.impl = "Sink"
    /\ sret.op = "push"
    /\ ~shist.oversize
    /\ sfn.bufferSize = 2
    /\ Size(sret.floats) = 1
    /\ shist.framesIn = 3
    /\ \E j \in (Len(sret.written) + 1)..Len(sfn.pcm) : sfn.pcm[j] # 0

C8_InvalidStaysUnopened ==
    (openRet.called /\ ~wavFile.valid) =>
        /\ openRet.err = ErrInvalidWav
        /\ openRet.fn = "nil"
        /\ openRet.sampleRate = 0
        /\ openRet.numChannels = 0
        /\ fn.impl = "none"
        /\ reads = 0
        /\ d = "nil"

\* C9: a sink configured with a bit depth outside {8, 16, 24, 32} fails
\* before an encoder is created or anything is written; 8, 16, 24 and 32 are
\* accepted.
C9_UnsupportedBitDepthRejected ==
    /\ sink.bitDepth \notin SupportedBitDepths =>
          /\ enc.created = 0
          /\ enc.writes = 0
          /\ sret.op = "sink" => sret.err # Nil
    /\ sink.bitDepth \in SupportedBitDepths =>
          (sret.op = "sink" => sret.err = Nil /\ enc.created = 1)

\* C10: a pull whose read failed returns an error that carries the decoder's
\* error and not io.EOF, returns no frames even when samples were read, and
\* has made that one read only.
C10_ReadError ==
    (ret.called /\ ret.readErr # Nil) =>
        /\ Carries(ret.err, ret.readErr)
        /\ ~Carries(ret.err, EOF)
        /\ ret.frames = 0
        /\ ret.out = <<>>
        /\ ret.attempts = 1
        /\ reads = hist.calls

C10_Witness ==
    /\ fn.impl = "Source"
    /\ ret.called
    /\ ret.readErr = ErrRead
    /\ ret.read > 0
    /\ ret.err = Wrap("error reading PCM buffer", ErrRead)

\* C11 as stated: a push whose encoder write failed returns an error carrying
\* that failure, having called Write exactly once, and every later push on
\* the same stream fails too.
C11_WriteFailureFatal ==
    sret.op = "push" =>
        /\ sret.writeErr # Nil =>
              Carries(sret.err, sret.writeErr) /\ sret.writes = 1
        /\ sret.afterFailure => sret.err # Nil

\* C11 amended: a push whose encoder write failed returns an error carrying
\* that failure, having called Write exactly once; the sink keeps no record
\* of the failure, so a later push calls Write once again and returns nil
\* when that write succeeds.
C11_WriteFailure ==
    sret.op = "push" =>
        /\ sret.writes = 1
        /\ enc.writes = shist.pushes
        /\ sret.writeErr # Nil => Carries(sret.err, sret.writeErr)
        /\ sret.writeErr = Nil => sret.err = Nil

C11_Witness ==
    /\ sfn.impl = "Sink"
    /\ sret.op = "push"
    /\ sret.writeErr = ErrWrite
    /\ sret.err = Wrap("error writing PCM buffer", ErrWrite)
    /\ ~sret.afterFailure
    /\ enc.writes = 2

\* C12 as stated: a flush with no buffer pushed, the sink function allocated
\* or not, returns no error when Close succeeds and leaves the encoder closed
\* exactly once.
C12_FlushAlwaysFinalizes ==
    (sret.op = "flush" /\ shist.pushes = 0 /\ sret.writeErr = Nil) =>
        /\ sret.err = Nil
        /\ enc.created = 1
        /\ enc.closed = 1

\* C12 amended: a flush with no buffer pushed on a sink whose sink function
\* has been allocated returns no error when Close succeeds and leaves the
\* encoder closed exactly once; Flush on a Sink value whose sink function was
\* never allocated returns nil and finalizes nothing, there being no encoder.
C12_FlushWithoutPush ==
    (sret.op = "flush" /\ shist.pushes = 0 /\ sret.writeErr = Nil) =>
        /\ sret.err = Nil
        /\ sfn.impl # "none" => enc.created = 1 /\ enc.closed = 1
        /\ sfn.impl = "none" => enc.created = 0 /\ enc.closed = 0

C12_Witness ==
    /\ sfn.impl = "SinkMethod"
    /\ sret.op = "flush"
    /\ shist.pushes = 0
    /\ sret.writeErr = Nil
    /\ sret.err = Nil
    /\ enc.writes = 0
    /\ enc.closed = 1

\* C13 as stated: a pull made after an earlier pull of the stream returned
\* io.EOF is rejected with a state error: it returns an error that is not
\* io.EOF, and no data.
C13_StateError ==
    (ret.called /\ ret.afterEof) =>
        /\ ret.err # Nil
        /\ ret.err # EOF
        /\ ret.out = <<>>

\* C13 amended: no pull function exists before open has succeeded, and a
\* pull made after an earlier pull returned io.EOF is not rejected: it reads
\* the decoder again and returns io.EOF again, with no data, when that read
\* gives zero samples.
C13_PullAfterEnd ==
    /\ ret.called => wavFile.valid /\ openRet.called /\ openRet.err = Nil
    /\ (openRet.called /\ openRet.err # Nil) => openRet.fn = "nil"
    /\ (ret.called /\ ret.afterEof /\ ret.readErr = Nil) =>
          /\ reads = hist.calls
          /\ ret.attempts = 1
          /\ ret.read = 0 => ret.err = EOF /\ ret.out = <<>>

C13_Witness ==
    /\ fn.impl = "PumpSized"
    /\ hist.caps = {2}
    /\ wavFile.frames = 2
    /\ ret.called
    /\ ret.afterEof
    /\ ret.readErr = Nil
    /\ ret.err = EOF
    /\ hist.calls = 3

\* the distance between the floats a and b, in steps of 2^-(bitDepth-1)
StepsApart(a, b, bitDepth) ==
    LET sa == Scale(a, bitDepth - 1)
        sb == Scale(b, bitDepth - 1)
    IN IF sa >= sb THEN sa - sb ELSE sb - sa

LastRead == [j \in 1..ret.read |-> SrcSample(pos - ret.read + j)]

\* C16: the representation is fixed when the stream is opened, unsigned if
\* and only if the bit depth is 8, and every pull decodes and every push
\* encodes with the bit depth and the signedness of its stream.
C16_SignednessFixed ==
    /\ fn.impl # "none" =>
          /\ fn.bitDepth = wavFile.bitDepth
          /\ fn.unsigned = (wavFile.bitDepth = 8)
    /\ (ret.called /\ Delivers(ret)) =>
          /\ Len(ret.out) = wavFile.channels
          /\ \A c \in 1..Len(ret.out) : \A i \in 1..Len(ret.out[c]) :
                ret.out[c][i]
                    = IntToFloat(LastRead[(i - 1) * wavFile.channels + c],
                                 wavFile.bitDepth, wavFile.bitDepth = 8)
    /\ sfn.impl # "none" =>
          /\ enc.bitDepth = sink.bitDepth
          /\ sfn.bitDepth = enc.bitDepth
          /\ sfn.unsigned = (enc.bitDepth = 8)
    /\ sret.op = "push" =>
          /\ Len(sret.written) = Len(sret.floats) * Size(sret.floats)
          /\ \A j \in 1..Len(sret.written) :
                sret.written[j]
                    = FloatToInt(Interleave(sret.floats)[j], enc.bitDepth,
                                 enc.bitDepth = 8)

C16_Witness ==
    /\ fn.impl = "Source"
    /\ wavFile.bitDepth = 8
    /\ sink.bitDepth = 16
    /\ fn.unsigned
    /\ ~sfn.unsigned
    /\ shist.pushes = 2
    /\ sret.op = "push"
    /\ Size(sret.floats) = 2

\* C17: a successful open reports the sample rate and the channel count of
\* the header, the encoder is created with the sample rate and the channel
\* count the sink was given, and no pull or push changes them.
C17_PropertiesPassThrough ==
    /\ (openRet.called /\ openRet.err = Nil) =>
          /\ openRet.sampleRate = wavFile.sampleRate
          /\ openRet.numChannels = wavFile.channels
    /\ sfn.impl # "none" =>
          /\ enc.created = 1
          /\ enc.sampleRate = openRet.sampleRate
          /\ enc.numChannels = openRet.numChannels
          /\ sfn.channels = openRet.numChannels
    /\ (ret.called /\ Delivers(ret)) => Len(ret.out) = openRet.numChannels
    /\ sret.op = "push" =>
          Len(sret.written) = Size(sret.floats) * enc.numChannels

C17_Witness ==
    /\ fn.impl = "PumpSized"
    /\ sfn.impl = "SinkEach"
    /\ wavFile.sampleRate = 22050
    /\ wavFile.channels = 2
    /\ enc.sampleRate = 22050
    /\ enc.numChannels = 2
    /\ shist.pushes = 2
    /\ sret.op = "flush"

\* C18: a pull of Pump.Pump makes its scratch PCM buffer anew exactly when the
\* buffer size asked for differs from the frames the scratch buffer holds,
\* whatever the channel count: two pulls in a row of the same size share it.
C18_ReallocOnlyOnResize ==
    (ret.called /\ fn.impl \in {"PumpSized", "PumpInto"}) =>
        (ret.realloc <=> ret.capacity # ret.held)

\* C19: when a push of sinkSigned or sinkUnsigned returns, the scratch PCM
\* buffer has its full length of capacity x channels samples again, whether
\* the buffer pushed was short or not and whether Write failed or not, and a
\* push of a full buffer writes all of its frames x channels samples.
C19_ScratchRestored ==
    (sret.op = "push" /\ sfn.impl \in {"Sink", "SinkMethod"}) =>
        /\ sfn.pcmLen = sfn.bufferSize * sfn.channels
        /\ Len(sfn.pcm) = sfn.bufferSize * sfn.channels
        /\ Size(sret.floats) = sfn.bufferSize =>
              Len(sret.written) = Size(sret.floats) * sfn.channels

C19_Witness ==
    /\ sfn.impl = "Sink"
    /\ sret.op = "push"
    /\ sfn.bufferSize = 2
    /\ sfn.channels = 2
    /\ shist.pushes = 2
    /\ shist.framesIn = 3
    /\ sret.afterFailure
    /\ Size(sret.floats) = 2
    /\ Len(sret.written) = 4
    /\ sfn.pcmLen = 4

\* C20: once a pull of a stream has returned io.EOF, every later pull of that
\* stream returns no frames.
C20_NoFramesAfterEnd ==
    (ret.called /\ ret.afterEof) =>
        /\ ret.frames = 0
        /\ ret.out = <<>>

\* C21: a pull function reads only the decoder made by the open call that
\* returned it, and a push function writes only the encoder made by the sink
\* call that returned it, also when open or sink is called again on the same
\* value and the old and the new functions are called in turn.
C21_OwnDecoderEncoder ==
    own.by # 0 => own.on = own.by

\* C22: after every pull that returns data, the output buffer has one
\* sequence per channel, all of the same length, and that length is the
\* number of frames the pull read, counting a frame the data chunk ends in;
\* a buffer of the caller's is cut to them on a short read.
C22_EqualChannelLengths ==
    (ret.called /\ Delivers(ret)) =>
        /\ ret.read > 0
        /\ Len(ret.out) = wavFile.channels
        /\ \A c \in 1..Len(ret.out) :
              Len(ret.out[c]) = ChannelLength(ret.read, wavFile.channels)
        /\ ret.frames = ChannelLength(ret.read, wavFile.channels)

C22_Witness ==
    /\ fn.impl = "PumpInto"
    /\ wavFile.channels = 2
    /\ wavFile.frames = 3
    /\ wavFile.tail = 0
    /\ hist.calls = 3
    /\ hist.caps = {1, 2}
    /\ ret.capacity = 2
    /\ ret.read = 2
    /\ Len(ret.out) = 2
    /\ Len(ret.out[1]) = 1
    /\ Len(ret.out[2]) = 1

\* C23: every PCM slice a pull hands to the sample converter has a length
\* that is a multiple of the channel count, the slice cut to the samples of a
\* short read included.
C23_WholeFramesHanded ==
    ret.called => ret.handed % wavFile.channels = 0

\* C24 as stated: a flush is accepted only on a sink that is streaming, and
\* once a flush has returned no later push writes PCM to the encoder.
C24_FlushedTerminal ==
    /\ (sret.op = "flush" /\ sret.err = Nil) => sfn.impl # "none"
    /\ (sret.op = "push" /\ enc.closed > 0) =>
          /\ sret.writes = 0
          /\ sret.written = <<>>

\* C24 amended: the sink keeps no state that a flush or a push looks at.
\* Flush on a sink whose sink function was allocated closes the encoder and
\* returns what Close returned, pushes made or not; on a Sink value whose
\* sink function was never allocated it returns nil and closes nothing.  A
\* push made after a flush has returned is not turned down: it converts its
\* buffer and calls the encoder's Write once, like any other push; it is for
\* the caller not to push after the flush.
C24_PushAfterFlush ==
    /\ (sret.op = "flush" /\ sfn.impl # "none") =>
          /\ enc.closed = 1
          /\ sret.writeErr = Nil => sret.err = Nil
          /\ sret.writeErr # Nil => Carries(sret.err, sret.writeErr)
    /\ (sret.op = "flush" /\ sfn.impl = "none") =>
          /\ sret.err = Nil
          /\ enc.created = 0
          /\ enc.closed = 0
    /\ (sret.op = "push" /\ enc.closed > 0) =>
          /\ enc.closed = 1
          /\ sret.writes = 1
          /\ enc.writes = shist.pushes
          /\ sret.writeErr = Nil => sret.err = Nil
          /\ ~shist.oversize =>
                sret.written = AsInterInt(sret.floats, sink.bitDepth,
                                          sfn.unsigned)

C24_Witness ==
    /\ sfn.impl = "Sink"
    /\ sret.op = "push"
    /\ enc.closed = 1
    /\ shist.pushes = 2
    /\ enc.writes = 2
    /\ ~shist.oversize
    /\ Size(sret.floats) = 2
    /\ Len(sret.written) = 2 * sfn.channels
    /\ sret.err = Nil

\* C25: a pull returns io.EOF only when every frame of the source has been
\* delivered by the pulls before it, whatever sizes the pulls ask for, a size
\* of 0 asked for while frames remain included.
C25_EofOnlyAtEnd ==
    (ret.called /\ ret.err = EOF /\ ~hist.failed) =>
        /\ pos = TotalSamples
        /\ ~ret.afterEof => hist.sum = wavFile.frames

====
